---- MODULE Spec2Model ----
(***************************************************************************)
(* The hosts-file library: the codec (Hosts.parse, Hosts.serialize), the   *)
(* entry algebra (Hosts.getEntries, Hosts.addEntry, Hosts.removeEntry) and *)
(* one Hosts instance bound to a file (read, write, the lines property),   *)
(* and several instances bound to the same file.                           *)
(*                                                                         *)
(* A JavaScript string is a sequence of one-character strings, so that it  *)
(* can be sliced, trimmed and split the way the code does it.  A HostsLine *)
(* is a record holding exactly the keys the code gives the object: an      *)
(* entry parsed without '#' has no "comment" key, a line built by addEntry *)
(* has no "id" key.                                                        *)
(*                                                                         *)
(* The definitions follow class Hosts.  The earlier class HostsManager has *)
(* the same parse, serialize, addEntry and removeEntry, without the line   *)
(* ids and without the tests for undefined ip and hostnames.               *)
(***************************************************************************)
EXTENDS Integers, Sequences, FiniteSets, TLC

VARIABLES file, lines, last, bindings

vars == <<file, lines, last, bindings>>

----------------------------------------------------------------------------
(* Bounds of the model. *)

\* longest text the codec specification starts from
MaxLen == 5
\* longest text the whole-program specification starts from
MaxFile == 2
\* most lines of a line sequence the entry-algebra specification starts from
MaxLines == 2
\* most hostnames passed to one addEntry call
MaxHosts == 2
\* most read / addEntry / write cycles of one of several bindings on a path
MaxCycles == 1

----------------------------------------------------------------------------
(* Characters and strings. *)

LF == "\n"
CR == "\r"
TAB == "\t"
SP == " "
HASH == "#"

\* what String.prototype.trimEnd / trimStart and the regex class \s strip
WhiteSpace == {SP, TAB, CR, LF}

\* the characters texts are drawn from
Char == {"a", "b", SP, TAB, HASH, LF, CR}

\* the sequences over S of length at most n
SeqsUpTo(S, n) == UNION {[1..k -> S] : k \in 0..n}

\* the texts of length at most n
Texts(n) == SeqsUpTo(Char, n)

RECURSIVE trimEnd(_)
trimEnd(s) ==
    IF s = <<>> THEN <<>>
    ELSE IF s[Len(s)] \in WhiteSpace THEN trimEnd(SubSeq(s, 1, Len(s) - 1))
    ELSE s

\* trimStart left out: the string keeps its leading whitespace
keepStart(s) == s

RECURSIVE trimStart(_)
trimStart(s) ==
    IF s = <<>> THEN <<>>
    ELSE IF Head(s) \in WhiteSpace THEN trimStart(Tail(s))
    ELSE s

\* String.prototype.indexOf: 0-based position of the first c, -1 if none
indexOf(s, c) ==
    IF \E k \in 1..Len(s) : s[k] = c
    THEN (CHOOSE k \in 1..Len(s) : s[k] = c /\ \A j \in 1..(k - 1) : s[j] # c) - 1
    ELSE -1

\* String.prototype.slice(from, to) with 0-based, end-exclusive positions
slice(s, from, to) == SubSeq(s, from + 1, to)

\* a split that drops the empty string after a final line break
RECURSIVE splitLinesNoTrailing(_)
splitLinesNoTrailing(s) ==
    LET k == indexOf(s, LF) IN
    IF k < 0 THEN <<s>>
    ELSE LET cut == IF k > 0 /\ s[k] = CR THEN k - 1 ELSE k
             rest == slice(s, k + 1, Len(s))
         IN <<slice(s, 0, cut)>> \o (IF rest = <<>> THEN <<>> ELSE splitLinesNoTrailing(rest))

\* content.split(/\r?\n/): cut at every \n, taking a \r right before it along
RECURSIVE splitLines(_)
splitLines(s) ==
    LET k == indexOf(s, LF) IN
    IF k < 0 THEN <<s>>
    ELSE LET cut == IF k > 0 /\ s[k] = CR THEN k - 1 ELSE k
         IN <<slice(s, 0, cut)>> \o splitLines(slice(s, k + 1, Len(s)))

\* dataPart.split(/\s+/): cut at every run of whitespace; a leading or
\* trailing run leaves an empty string at that end
RECURSIVE splitSpace(_)
splitSpace(s) ==
    IF \A k \in 1..Len(s) : s[k] \notin WhiteSpace THEN <<s>>
    ELSE LET k == CHOOSE i \in 1..Len(s) :
                     s[i] \in WhiteSpace /\ \A j \in 1..(i - 1) : s[j] \notin WhiteSpace
             \* the run of whitespace starting at k ends right before e
             e == CHOOSE i \in (k + 1)..(Len(s) + 1) :
                     /\ \A j \in k..(i - 1) : s[j] \in WhiteSpace
                     /\ i <= Len(s) => s[i] \notin WhiteSpace
         IN <<SubSeq(s, 1, k - 1)>> \o splitSpace(SubSeq(s, e, Len(s)))

\* Array.prototype.join(sep)
RECURSIVE join(_, _)
join(parts, sep) ==
    IF parts = <<>> THEN <<>>
    ELSE IF Len(parts) = 1 THEN parts[1]
    ELSE parts[1] \o sep \o join(Tail(parts), sep)

\* [...new Set(xs)]: the first occurrence of each element, in order
RECURSIVE uniq(_)
uniq(xs) ==
    IF xs = <<>> THEN <<>>
    ELSE LET init == uniq(SubSeq(xs, 1, Len(xs) - 1))
             x == xs[Len(xs)]
         IN IF \E k \in 1..Len(init) : init[k] = x THEN init ELSE Append(init, x)

----------------------------------------------------------------------------
(* Hosts.parse *)

\* one turn of the loop of parse: the lines it pushes for contentLines[i]
parseLine(rawLine, lineNumber) ==
    LET trimmed == trimEnd(rawLine)
        commentStart == indexOf(trimmed, HASH)
        hasComment == commentStart >= 0
        dataPart == IF hasComment THEN trimEnd(slice(trimmed, 0, commentStart))
                    ELSE trimmed
        inlineComment == trimStart(slice(trimmed, commentStart + 1, Len(trimmed)))
        tokens == SelectSeq(splitSpace(dataPart), LAMBDA t : t # <<>>)
    IN IF trimmed = <<>> THEN <<[type |-> "empty", id |-> lineNumber]>>
       ELSE IF commentStart = 0
       THEN <<[type |-> "comment",
               comment |-> trimStart(slice(trimmed, 1, Len(trimmed))),
               id |-> lineNumber]>>
       ELSE IF dataPart = <<>>
       THEN <<[type |-> "comment",
               comment |-> IF hasComment THEN inlineComment ELSE <<>>,
               id |-> lineNumber]>>
       ELSE IF Len(tokens) = 0 THEN <<[type |-> "empty", id |-> lineNumber]>>
       ELSE IF Head(tokens) # <<>>
       THEN IF hasComment
            THEN <<[type |-> "entry", ip |-> Head(tokens), hostnames |-> Tail(tokens),
                    comment |-> inlineComment, id |-> lineNumber]>>
            ELSE <<[type |-> "entry", ip |-> Head(tokens), hostnames |-> Tail(tokens),
                    id |-> lineNumber]>>
       ELSE <<>>

RECURSIVE parseFrom(_, _)
parseFrom(contentLines, i) ==
    IF i > Len(contentLines) THEN <<>>
    ELSE parseLine(contentLines[i], i) \o parseFrom(contentLines, i + 1)

parse(content) == parseFrom(splitLines(content), 1)

----------------------------------------------------------------------------
(* Hosts.serialize *)

\* JavaScript truthiness of line.comment: the key is there and not ''
hasText(line) == "comment" \in DOMAIN line /\ line.comment # <<>>

serializeLine(line) ==
    IF line.type = "empty" THEN <<>>
    ELSE IF line.type = "comment"
    THEN IF hasText(line) THEN <<HASH, SP>> \o line.comment ELSE <<HASH>>
    ELSE IF line.type = "entry" /\ "ip" \in DOMAIN line /\ "hostnames" \in DOMAIN line
    THEN LET main == join(<<line.ip>> \o line.hostnames, <<TAB>>)
         IN IF hasText(line) THEN main \o <<TAB, HASH, SP>> \o line.comment ELSE main
    ELSE <<>>

\* a serialize that ends every line, the last one too, with a newline
serializeNewlineEnded(ls) ==
    join([i \in 1..Len(ls) |-> serializeLine(ls[i]) \o <<LF>>], <<>>)

serialize(ls) == join([i \in 1..Len(ls) |-> serializeLine(ls[i])], <<LF>>)

----------------------------------------------------------------------------
(* The entry algebra: Hosts.getEntries, Hosts.addEntry, Hosts.removeEntry *)

\* Array.prototype.findIndex, given for each element whether the callback
\* accepts it: 0-based position of the first accepted one, -1 if none
findIndex(accepted) ==
    IF \E k \in 1..Len(accepted) : accepted[k]
    THEN (CHOOSE k \in 1..Len(accepted) :
              accepted[k] /\ \A j \in 1..(k - 1) : ~accepted[j]) - 1
    ELSE -1

\* Array.prototype.lastIndexOf: 0-based position of the last x, -1 if none
lastIndexOf(xs, x) ==
    IF \E k \in 1..Len(xs) : xs[k] = x
    THEN (CHOOSE k \in 1..Len(xs) : xs[k] = x /\ \A j \in (k + 1)..Len(xs) : xs[j] # x) - 1
    ELSE -1

isEntry(line) ==
    line.type = "entry" /\ "ip" \in DOMAIN line /\ "hostnames" \in DOMAIN line

getEntries(ls) == SelectSeq(ls, isEntry)

\* addEntry putting the supplied hostnames before the existing ones
addEntryNewFirst(ls, ip, hostnames) ==
    LET k == findIndex([i \in 1..Len(ls) |-> isEntry(ls[i]) /\ ls[i].ip = ip])
        newEntry == [type |-> "entry", ip |-> ip, hostnames |-> uniq(hostnames)]
        lastEntryIdx == lastIndexOf([i \in 1..Len(ls) |-> ls[i].type], "entry")
        insertAt == IF lastEntryIdx >= 0 THEN lastEntryIdx + 1 ELSE Len(ls)
    IN IF k >= 0
       THEN [ls EXCEPT ![k + 1] =
                [@ EXCEPT !.hostnames = uniq(uniq(hostnames) \o ls[k + 1].hostnames)]]
       ELSE slice(ls, 0, insertAt) \o <<newEntry>> \o slice(ls, insertAt, Len(ls))

\* addEntry appending a new entry at the end of the sequence
addEntryAtEnd(ls, ip, hostnames) ==
    LET k == findIndex([i \in 1..Len(ls) |-> isEntry(ls[i]) /\ ls[i].ip = ip])
        newEntry == [type |-> "entry", ip |-> ip, hostnames |-> uniq(hostnames)]
    IN IF k >= 0
       THEN [ls EXCEPT ![k + 1] =
                [@ EXCEPT !.hostnames = uniq(ls[k + 1].hostnames \o uniq(hostnames))]]
       ELSE Append(ls, newEntry)

\* addEntry merging without new Set(...): hostnames already there are appended again
addEntryNoSet(ls, ip, hostnames) ==
    LET k == findIndex([i \in 1..Len(ls) |-> isEntry(ls[i]) /\ ls[i].ip = ip])
        newEntry == [type |-> "entry", ip |-> ip, hostnames |-> uniq(hostnames)]
        lastEntryIdx == lastIndexOf([i \in 1..Len(ls) |-> ls[i].type], "entry")
        insertAt == IF lastEntryIdx >= 0 THEN lastEntryIdx + 1 ELSE Len(ls)
    IN IF k >= 0
       THEN [ls EXCEPT ![k + 1] =
                [@ EXCEPT !.hostnames = ls[k + 1].hostnames \o uniq(hostnames)]]
       ELSE slice(ls, 0, insertAt) \o <<newEntry>> \o slice(ls, insertAt, Len(ls))

addEntry(ls, ip, hostnames) ==
    LET entries == getEntries(ls)
        existingIdx == findIndex([i \in 1..Len(entries) |-> entries[i].ip = ip])
        newHostnames == uniq(hostnames)
        lineIdx == IF existingIdx >= 0
                   THEN findIndex([i \in 1..Len(ls) |->
                                      /\ ls[i].type = "entry"
                                      /\ "ip" \in DOMAIN ls[i]
                                      /\ ls[i].ip = entries[existingIdx + 1].ip])
                   ELSE -1
        newEntry == [type |-> "entry", ip |-> ip, hostnames |-> newHostnames]
        lastEntryIdx == lastIndexOf([i \in 1..Len(ls) |-> ls[i].type], "entry")
        insertAt == IF lastEntryIdx >= 0 THEN lastEntryIdx + 1 ELSE Len(ls)
    IN IF /\ existingIdx >= 0
          /\ lineIdx >= 0
          /\ ls[lineIdx + 1].type = "entry"
          /\ "hostnames" \in DOMAIN ls[lineIdx + 1]
       THEN LET merged == uniq(ls[lineIdx + 1].hostnames \o newHostnames)
            IN [ls EXCEPT ![lineIdx + 1] = [@ EXCEPT !.hostnames = merged]]
       ELSE slice(ls, 0, insertAt) \o <<newEntry>> \o slice(ls, insertAt, Len(ls))

\* what the callback of map returns for a line that is dropped
Null == [type |-> "null"]

\* s without the first x
RECURSIVE withoutFirst(_, _)
withoutFirst(s, x) ==
    IF s = <<>> THEN <<>>
    ELSE IF Head(s) = x THEN Tail(s)
    ELSE <<Head(s)>> \o withoutFirst(Tail(s), x)

\* the callback removing one occurrence of the hostname, not all
removeFirstFromLine(line, ipOrHostname) ==
    IF line.type # "entry" THEN line
    ELSE IF line.ip = ipOrHostname THEN Null
    ELSE IF \E k \in 1..Len(line.hostnames) : line.hostnames[k] = ipOrHostname
    THEN LET filtered == withoutFirst(line.hostnames, ipOrHostname)
         IN IF Len(filtered) > 0 THEN [line EXCEPT !.hostnames = filtered] ELSE Null
    ELSE line

\* the callback testing the hostnames before the ip
removeHostFirstFromLine(line, ipOrHostname) ==
    IF line.type # "entry" THEN line
    ELSE IF \E k \in 1..Len(line.hostnames) : line.hostnames[k] = ipOrHostname
    THEN LET filtered == SelectSeq(line.hostnames, LAMBDA h : h # ipOrHostname)
         IN IF Len(filtered) > 0 THEN [line EXCEPT !.hostnames = filtered] ELSE Null
    ELSE IF line.ip = ipOrHostname THEN Null
    ELSE line

\* the callback removeEntry maps over the lines
removeFromLine(line, ipOrHostname) ==
    IF line.type # "entry" THEN line
    ELSE IF "ip" \in DOMAIN line /\ line.ip = ipOrHostname THEN Null
    ELSE IF "hostnames" \in DOMAIN line
            /\ \E k \in 1..Len(line.hostnames) : line.hostnames[k] = ipOrHostname
    THEN LET filtered == SelectSeq(line.hostnames, LAMBDA h : h # ipOrHostname)
         IN IF Len(filtered) > 0 THEN [line EXCEPT !.hostnames = filtered] ELSE Null
    ELSE line

removeEntry(ls, ipOrHostname) ==
    SelectSeq([i \in 1..Len(ls) |-> removeFromLine(ls[i], ipOrHostname)],
              LAMBDA l : l # Null)

----------------------------------------------------------------------------
(* A Hosts instance and its file.  last names the operation that produced  *)
(* the state.                                                              *)

\* read(): #lines = parse(content of the file)
Read ==
    /\ lines' = parse(file)
    /\ last' = "read"
    /\ UNCHANGED <<file, bindings>>

\* write(): the file becomes serialize(#lines)
Write ==
    /\ file' = serialize(lines)
    /\ last' = "write"
    /\ UNCHANGED <<lines, bindings>>

\* ip and hostname tokens: parse cuts them at whitespace and '#'
Tokens == {<<"a">>, <<"b">>}

\* the hostname lists a caller passes, repeated hostnames and none included
HostLists == SeqsUpTo(Tokens, MaxHosts)

\* lines = Hosts.addEntry(lines, ip, ...hostnames)
AddEntry ==
    \E ip \in Tokens, hostnames \in HostLists :
        /\ lines' = addEntry(lines, ip, hostnames)
        /\ last' = "addEntry"
        /\ UNCHANGED <<file, bindings>>

\* lines = Hosts.removeEntry(lines, ipOrHostname)
RemoveEntry ==
    \E ipOrHostname \in Tokens :
        /\ lines' = removeEntry(lines, ipOrHostname)
        /\ last' = "removeEntry"
        /\ UNCHANGED <<file, bindings>>

----------------------------------------------------------------------------
(* The whole program: a new instance (#lines = []) on a file holding any   *)
(* text, then any calls.                                                   *)

Init ==
    /\ file \in Texts(MaxFile)
    /\ lines = <<>>
    /\ last = "new"
    /\ bindings = <<>>

Next == Read \/ Write \/ AddEntry \/ RemoveEntry

Spec == Init /\ [][Next]_vars

----------------------------------------------------------------------------
(* The codec alone: longer texts, read and write only. *)

InitCodec ==
    /\ file \in Texts(MaxLen)
    /\ lines = <<>>
    /\ last = "new"
    /\ bindings = <<>>

NextCodec == Read \/ Write

SpecCodec == InitCodec /\ [][NextCodec]_vars

----------------------------------------------------------------------------
(* The entry algebra alone, on line sequences a caller writes down.         *)

\* the hostnames of an entry written down: none, one, or two, the same one
\* twice included
EntryHosts ==
    {<<>>} \cup {<<h>> : h \in Tokens} \cup {<<h1, h2>> : h1 \in Tokens, h2 \in Tokens}

\* the lines written down: entries sharing an ip or not, entries with an
\* inline comment, comment lines and empty lines
LiteralLines ==
    {[type |-> "entry", ip |-> ip, hostnames |-> hs] : ip \in Tokens, hs \in EntryHosts}
    \cup {[type |-> "entry", ip |-> ip, hostnames |-> <<ip>>, comment |-> <<"a">>] :
            ip \in Tokens}
    \cup {[type |-> "comment", comment |-> <<"a">>], [type |-> "empty"]}

\* lines = value (the setter), on a new instance
InitAlgebra ==
    /\ file = <<>>
    /\ lines \in SeqsUpTo(LiteralLines, MaxLines)
    /\ last = "new"
    /\ bindings = <<>>

NextAlgebra == AddEntry \/ RemoveEntry

SpecAlgebra == InitAlgebra /\ [][NextAlgebra]_vars

----------------------------------------------------------------------------
(* Several bindings on one path.  Each runs read, addEntry, write in turn, *)
(* as its caller awaits each call; the calls of different bindings         *)
(* interleave at every await.  readFile and writeFile each take or replace *)
(* the whole content of the file in one step.  bindings[b] holds the       *)
(* #lines of binding b, the string its pending call holds (the content     *)
(* read, or the content to write) and where its caller stands.             *)

Bindings == {1, 2}

\* the hostnames a binding adds in a cycle
OneHost == {<<h>> : h \in Tokens}

\* fs appendFile in the place of writeFile: the content is added to the file
appendFile(old, content) == old \o content

\* fs writeFile(path, content): the content replaces what the file held
writeFile(old, content) == content

InitIO ==
    /\ file \in Texts(MaxFile)
    /\ lines = <<>>
    /\ last = [op |-> "new", by |-> 0]
    /\ bindings = [b \in Bindings |->
                      [pc |-> "idle", lines |-> <<>>, content |-> <<>>, cycles |-> 0]]

\* read(), up to its await: readFile takes the content of the file
ReadFile(b) ==
    /\ bindings[b].pc = "idle"
    /\ bindings[b].cycles < MaxCycles
    /\ bindings' = [bindings EXCEPT ![b].pc = "reading", ![b].content = file]
    /\ last' = [op |-> "readFile", by |-> b]
    /\ UNCHANGED <<file, lines>>

\* read(), after its await: #lines = parse(content)
ReadDone(b) ==
    /\ bindings[b].pc = "reading"
    /\ bindings' = [bindings EXCEPT ![b].pc = "read",
                                    ![b].lines = parse(bindings[b].content)]
    /\ last' = [op |-> "read", by |-> b]
    /\ UNCHANGED <<file, lines>>

\* updated = Hosts.addEntry(lines, ip, hostname), then write(updated) up to
\* its await: content = serialize(updated)
AddAndSerialize(b) ==
    /\ bindings[b].pc = "read"
    /\ \E ip \in Tokens, hostnames \in OneHost :
          \E updated \in {addEntry(bindings[b].lines, ip, hostnames)} :
              bindings' = [bindings EXCEPT ![b].pc = "writing",
                                           ![b].lines = updated,
                                           ![b].content = serialize(updated)]
    /\ last' = [op |-> "addEntry", by |-> b]
    /\ UNCHANGED <<file, lines>>

\* write(updated), its await and after: writeFile stores the content, then
\* #lines = updated
WriteFile(b) ==
    /\ bindings[b].pc = "writing"
    /\ file' = writeFile(file, bindings[b].content)
    /\ bindings' = [bindings EXCEPT ![b].pc = "idle", ![b].cycles = @ + 1]
    /\ last' = [op |-> "write", by |-> b]
    /\ UNCHANGED lines

NextIO == \E b \in Bindings : ReadFile(b) \/ ReadDone(b) \/ AddAndSerialize(b) \/ WriteFile(b)

SpecIO == InitIO /\ [][NextIO]_vars

----------------------------------------------------------------------------
(* Properties of the codec, checked under SpecCodec. *)

\* the object has a comment key (an inline comment is present, '' included)
hasComment(line) == "comment" \in DOMAIN line

\* structural equality of two lines: type, ip, hostnames, comment and
\* whether a comment is present
sameLine(l1, l2) ==
    /\ l1.type = l2.type
    /\ ("ip" \in DOMAIN l1) = ("ip" \in DOMAIN l2)
    /\ "ip" \in DOMAIN l1 => l1.ip = l2.ip
    /\ ("hostnames" \in DOMAIN l1) = ("hostnames" \in DOMAIN l2)
    /\ "hostnames" \in DOMAIN l1 => l1.hostnames = l2.hostnames
    /\ hasComment(l1) = hasComment(l2)
    /\ hasComment(l1) => l1.comment = l2.comment

sameLines(ls1, ls2) ==
    /\ Len(ls1) = Len(ls2)
    /\ \A i \in 1..Len(ls1) : sameLine(ls1[i], ls2[i])

\* C1: round trip.  Whenever the lines are the parse of a text, parsing
\* their serialization gives structurally equal lines: the same number of
\* lines, each with the same type, ip, hostnames and comment, an inline
\* comment present in the one exactly when it is in the other.
C1_RoundTrip == last = "read" => sameLines(parse(serialize(lines)), lines)

\* s without its trailing whitespace: the longest prefix that is empty or
\* ends in a character that is not whitespace
stripEnd(s) ==
    LET n == CHOOSE k \in 0..Len(s) :
                 /\ k > 0 => s[k] \notin WhiteSpace
                 /\ \A j \in (k + 1)..Len(s) : s[j] \in WhiteSpace
    IN SubSeq(s, 1, n)

\* s without its leading whitespace
stripStart(s) ==
    LET n == CHOOSE k \in 1..(Len(s) + 1) :
                 /\ k <= Len(s) => s[k] \notin WhiteSpace
                 /\ \A j \in 1..(k - 1) : s[j] \in WhiteSpace
    IN SubSeq(s, n, Len(s))

hasHash(s) == \E k \in 1..Len(s) : s[k] = HASH

\* position of the first '#' of s, Len(s) + 1 if there is none
firstHash(s) ==
    CHOOSE k \in 1..(Len(s) + 1) :
        /\ k <= Len(s) => s[k] = HASH
        /\ \A j \in 1..(k - 1) : s[j] # HASH

beforeHash(s) == SubSeq(s, 1, firstHash(s) - 1)
afterHash(s) == SubSeq(s, firstHash(s) + 1, Len(s))

\* positions where a whitespace-delimited token of s starts
tokenStarts(s) ==
    {i \in 1..Len(s) : s[i] \notin WhiteSpace /\ (i = 1 \/ s[i - 1] \in WhiteSpace)}

\* the token of s that starts at position i
tokenAt(s, i) ==
    LET e == CHOOSE j \in i..Len(s) :
                 /\ \A m \in i..j : s[m] \notin WhiteSpace
                 /\ j < Len(s) => s[j + 1] \in WhiteSpace
    IN SubSeq(s, i, e)

\* the whitespace-delimited tokens of s, in order
RECURSIVE tokensFrom(_, _)
tokensFrom(s, starts) ==
    IF starts = {} THEN <<>>
    ELSE LET i == CHOOSE m \in starts : \A n \in starts : m <= n
         IN <<tokenAt(s, i)>> \o tokensFrom(s, starts \ {i})

tokensOf(s) == tokensFrom(s, tokenStarts(s))

\* the line the classification rule gives for the physical line raw
classified(raw, line) ==
    LET s == stripEnd(raw)
        toks == tokensOf(beforeHash(s))
    IN IF s = <<>> THEN line.type = "empty"
       ELSE IF hasHash(s) /\ \A k \in 1..(firstHash(s) - 1) : s[k] \in WhiteSpace
       THEN /\ line.type = "comment"
            /\ line.comment = stripStart(afterHash(s))
       ELSE /\ line.type = "entry"
            /\ line.ip = toks[1]
            /\ line.hostnames = Tail(toks)
            /\ hasComment(line) = hasHash(s)
            /\ hasHash(s) => line.comment = stripStart(afterHash(s))

\* C7: parse classifies each physical line, after stripping trailing
\* whitespace: empty gives Empty; a line with only whitespace (or nothing)
\* before its first '#' gives Comment with the text after that '#', leading
\* whitespace stripped; any other line gives an Entry whose ip is the first
\* whitespace-delimited token before the first '#', whose hostnames are the
\* remaining tokens in order, duplicates kept, and which has a comment (the
\* text after the first '#', leading whitespace stripped) exactly when the
\* line contains a '#'.
C7_ParseClassifies ==
    last = "read" =>
        LET raws == splitLines(file)
        IN /\ Len(lines) = Len(raws)
           /\ \A i \in 1..Len(raws) : classified(raws[i], lines[i])

\* a read that gave an entry with a hostname and an inline comment
C7_Witness ==
    /\ last = "read"
    /\ \E i \in 1..Len(lines) :
          /\ lines[i].type = "entry"
          /\ lines[i].hostnames # <<>>
          /\ hasComment(lines[i])

\* number of line breaks of a text: every \n ends a line, alone or after \r
lineBreaks(s) == Cardinality({k \in 1..Len(s) : s[k] = LF})

\* the text with every \n replaced by \r\n
RECURSIVE toCRLF(_)
toCRLF(s) ==
    IF s = <<>> THEN <<>>
    ELSE (IF Head(s) = LF THEN <<CR, LF>> ELSE <<Head(s)>>) \o toCRLF(Tail(s))

\* C8: parse gives exactly one line per physical line, the number of line
\* breaks plus one, so that a text ending in a line break gives a trailing
\* Empty and the empty text gives one Empty; and parsing the text with every
\* \n replaced by \r\n gives the same lines (for every text, so for every
\* LF-only text).
C8_LinesAndCRLF ==
    last = "read" =>
        /\ Len(lines) = lineBreaks(file) + 1
        /\ (file = <<>> \/ file[Len(file)] = LF) => lines[Len(lines)].type = "empty"
        /\ parse(toCRLF(file)) = lines

\* a read of a text that has a \r\n and a bare \n, ends in a line break and
\* holds an entry
C8_Witness ==
    /\ last = "read"
    /\ \E k \in 2..Len(file) : file[k - 1] = CR /\ file[k] = LF
    /\ \E k \in 1..Len(file) : file[k] = LF /\ (k = 1 \/ file[k - 1] # CR)
    /\ file[Len(file)] = LF
    /\ \E i \in 1..Len(lines) : lines[i].type = "entry"

\* the text of one line as the serialization rule gives it
rendered(line) ==
    IF line.type = "empty" THEN <<>>
    ELSE IF line.type = "comment"
    THEN IF line.comment = <<>> THEN <<HASH>> ELSE <<HASH, SP>> \o line.comment
    ELSE join(<<line.ip>> \o line.hostnames, <<TAB>>)
         \o (IF hasComment(line) THEN <<TAB, HASH, SP>> \o line.comment ELSE <<>>)

\* C9: serialize emits one text line per Line, joined by single newlines,
\* no trailing newline added (no lines give the empty string): Empty gives
\* ""; Comment gives "# " and the text, or "#" when the text is empty; Entry
\* gives ip and hostnames joined by tabs, followed, if a comment is present,
\* by a tab, "#", a space and the comment.
C9_SerializeFormat ==
    last = "write" =>
        file = join([i \in 1..Len(lines) |-> rendered(lines[i])], <<LF>>)

\* C12: the serialized text is a fixed point of parse-then-serialize: for
\* the text C that serialize gives for the parse of any text, serializing
\* the parse of C gives C again, character for character.
C12_SerializedFixedPoint ==
    last = "read" =>
        \A c \in {serialize(lines)} : serialize(parse(c)) = c

\* a read of a text that serialize writes differently, holding an entry
\* with a hostname and an empty inline comment
C12_Witness ==
    /\ last = "read"
    /\ serialize(lines) # file
    /\ \E i \in 1..Len(lines) :
          /\ lines[i].type = "entry"
          /\ lines[i].hostnames # <<>>
          /\ hasComment(lines[i])
          /\ lines[i].comment = <<>>

----------------------------------------------------------------------------
(* Properties of the entry algebra, checked under SpecAlgebra.  Each holds *)
(* of the current lines as the argument L, for every ip, hostname list and *)
(* string the operations are called with.                                  *)

\* C3: removeEntry is idempotent: removing x from the result of removing x
\* changes nothing, for sequences whose entries repeat hostnames or ips too.
C3_RemoveIdempotent ==
    \A x \in Tokens :
        \A r \in {removeEntry(lines, x)} : removeEntry(r, x) = r

\* a removal left an entry that repeats a hostname, and a further removal
\* would drop a line
C3_Witness ==
    /\ last = "removeEntry"
    /\ \E i \in 1..Len(lines) :
          /\ lines[i].type = "entry"
          /\ Len(lines[i].hostnames) >= 2
          /\ lines[i].hostnames[1] = lines[i].hostnames[2]
    /\ \E x \in Tokens : Len(removeEntry(lines, x)) < Len(lines)

\* the elements of xs at the positions that satisfy keep, in order
RECURSIVE pickFrom(_, _, _)
pickFrom(xs, keep(_), i) ==
    IF i > Len(xs) THEN <<>>
    ELSE (IF keep(i) THEN <<xs[i]>> ELSE <<>>) \o pickFrom(xs, keep, i + 1)

occursIn(x, xs) == \E k \in 1..Len(xs) : xs[k] = x

\* xs with each element kept at its first occurrence only
firstOccurrences(xs) ==
    pickFrom(xs, LAMBDA i : \A j \in 1..(i - 1) : xs[j] # xs[i], 1)

\* the hostnames of hs that existing does not hold, each once, in their order
newcomers(existing, hs) ==
    LET once == firstOccurrences(hs)
    IN pickFrom(once, LAMBDA i : ~occursIn(once[i], existing), 1)

hasEntryFor(ls, ip) == \E i \in 1..Len(ls) : ls[i].type = "entry" /\ ls[i].ip = ip

\* position of the first entry of ls with that ip
firstEntryFor(ls, ip) ==
    CHOOSE i \in 1..Len(ls) :
        /\ ls[i].type = "entry" /\ ls[i].ip = ip
        /\ \A j \in 1..(i - 1) : ~(ls[j].type = "entry" /\ ls[j].ip = ip)

\* r is ls with hs merged into the hostnames of its first entry for ip
merged(ls, ip, hs, r) ==
    LET k == firstEntryFor(ls, ip)
        existing == ls[k].hostnames
    IN /\ Len(r) = Len(ls)
       /\ \A i \in 1..Len(ls) : i # k => r[i] = ls[i]
       /\ r[k] = [ls[k] EXCEPT
                     !.hostnames = firstOccurrences(existing) \o newcomers(existing, hs)]

\* C4: addEntry for an ip some entry has: the result is as long as L, only
\* the first entry with that ip may differ, its hostnames are the existing
\* ones deduplicated in their order followed by the supplied ones not yet
\* present, deduplicated in their order; its other fields and every other
\* line, later entries with the same ip included, are unchanged.
C4_AddMerges ==
    \A ip \in Tokens, hs \in HostLists :
        hasEntryFor(lines, ip) =>
            \A r \in {addEntry(lines, ip, hs)} : merged(lines, ip, hs, r)

\* an addEntry left two entries with one ip: the first holds two distinct
\* hostnames, the later one still repeats a hostname
C4_Witness ==
    /\ last = "addEntry"
    /\ \E i, j \in 1..Len(lines) :
          /\ i < j
          /\ lines[i].type = "entry" /\ lines[j].type = "entry"
          /\ lines[i].ip = lines[j].ip
          /\ Len(lines[i].hostnames) = 2
          /\ lines[i].hostnames[1] # lines[i].hostnames[2]
          /\ Len(lines[j].hostnames) = 2
          /\ lines[j].hostnames[1] = lines[j].hostnames[2]

\* position of the last entry line of ls, Len(ls) if there is none
afterLastEntry(ls) ==
    IF \E i \in 1..Len(ls) : ls[i].type = "entry"
    THEN CHOOSE i \in 1..Len(ls) :
             ls[i].type = "entry" /\ \A j \in (i + 1)..Len(ls) : ls[j].type # "entry"
    ELSE Len(ls)

\* r is ls with a new entry for ip and hs inserted after its last entry
inserted(ls, ip, hs, r) ==
    LET p == afterLastEntry(ls)
    IN /\ Len(r) = Len(ls) + 1
       /\ r[p + 1] = [type |-> "entry", ip |-> ip, hostnames |-> firstOccurrences(hs)]
       /\ \A i \in 1..p : r[i] = ls[i]
       /\ \A i \in (p + 1)..Len(ls) : r[i + 1] = ls[i]

\* C5: addEntry for an ip no entry has: the result is L with one line
\* inserted, an entry with the ip, the supplied hostnames deduplicated in
\* first-occurrence order and no comment, right after the last entry line of
\* L, or at the end when L has no entry; the lines of L keep their content
\* and order.
C5_AddInserts ==
    \A ip \in Tokens, hs \in HostLists :
        ~hasEntryFor(lines, ip) =>
            \A r \in {addEntry(lines, ip, hs)} : inserted(lines, ip, hs, r)

\* an addEntry left an entry without comment between an entry and a
\* non-entry line that ends the sequence
C5_Witness ==
    /\ last = "addEntry"
    /\ Len(lines) = 3
    /\ lines[1].type = "entry"
    /\ lines[2].type = "entry" /\ ~hasComment(lines[2]) /\ lines[2].ip # lines[1].ip
    /\ lines[3].type # "entry"

\* the hostnames without x, in their order
RECURSIVE without(_, _)
without(hs, x) ==
    IF hs = <<>> THEN <<>>
    ELSE (IF Head(hs) = x THEN <<>> ELSE <<Head(hs)>>) \o without(Tail(hs), x)

\* what the per-line rule leaves of one line: the line, changed or not, or nothing
ruled(line, x) ==
    IF line.type # "entry" THEN <<line>>
    ELSE IF line.ip = x THEN <<>>
    ELSE IF occursIn(x, line.hostnames)
    THEN IF without(line.hostnames, x) = <<>> THEN <<>>
         ELSE <<[line EXCEPT !.hostnames = without(line.hostnames, x)]>>
    ELSE <<line>>

RECURSIVE ruledAll(_, _)
ruledAll(ls, x) ==
    IF ls = <<>> THEN <<>> ELSE ruled(Head(ls), x) \o ruledAll(Tail(ls), x)

\* C6: removeEntry applies the per-line rule to each line in order: a
\* non-entry line is kept; an entry whose ip is x is dropped, also when its
\* hostnames hold x; otherwise an entry whose hostnames hold x is kept
\* without x, or dropped if no hostname remains; any other entry is kept.
\* So when x is no ip and no hostname of L, the result is L.
C6_RemoveRule ==
    \A x \in Tokens :
        /\ removeEntry(lines, x) = ruledAll(lines, x)
        /\ (\A i \in 1..Len(lines) :
               lines[i].type = "entry" =>
                   lines[i].ip # x /\ ~occursIn(x, lines[i].hostnames))
           => removeEntry(lines, x) = lines

\* a removal left a comment line before an entry whose only hostname is its
\* own ip, the case where the ip test comes first
C6_Witness ==
    /\ last = "removeEntry"
    /\ Len(lines) = 2
    /\ lines[1].type = "comment"
    /\ lines[2].type = "entry"
    /\ lines[2].hostnames = <<lines[2].ip>>

\* C10: addEntry is idempotent: a second call with the same ip and
\* hostnames changes nothing and inserts no line, whether or not L has an
\* entry for the ip, and with repeated hostnames in the call or in L.
C10_AddIdempotent ==
    \A ip \in Tokens, hs \in HostLists :
        \A r \in {addEntry(lines, ip, hs)} : addEntry(r, ip, hs) = r

\* an addEntry left an entry for each ip; repeating a call with a repeated
\* hostname changes nothing
C10_Witness ==
    /\ last = "addEntry"
    /\ \A ip \in Tokens : hasEntryFor(lines, ip)
    /\ \E i \in 1..Len(lines) : lines[i].type # "entry"
    /\ \E ip \in Tokens, hs \in HostLists :
          /\ Len(hs) = 2 /\ hs[1] = hs[2]
          /\ addEntry(lines, ip, hs) = lines

----------------------------------------------------------------------------
(* Properties of the whole program, checked under Spec. *)

\* C2: in every line sequence reached by parsing any text and then calling
\* addEntry and removeEntry any number of times (addEntry with an empty
\* hostname list included), every entry line has at least one hostname.
C2_EntryHasHostname ==
    \A i \in 1..Len(lines) :
        lines[i].type = "entry" => Len(lines[i].hostnames) >= 1

----------------------------------------------------------------------------
(* Properties of several bindings on one path, checked under SpecIO. *)

\* C11: however the read and write calls of the bindings on one path
\* interleave, a write that has reached its writeFile is never held back or
\* refused, whatever the file holds by then, and right after a write completes
\* the file is exactly serialize of the lines that binding wrote: nothing of
\* the prior content, and nothing another binding wrote, is kept or merged.
C11_LastWriterWins ==
    /\ \A b \in Bindings : bindings[b].pc = "writing" => ENABLED WriteFile(b)
    /\ last.op = "write" => file = serialize(bindings[last.by].lines)

\* both bindings have gone through read, addEntry, write, their calls
\* interleaved so that the last writer read before the other wrote: the file
\* was not empty before, and the entry the earlier writer added is not in it
C11_Witness ==
    /\ last.op = "write"
    /\ \A b \in Bindings : bindings[b].cycles = 1 /\ bindings[b].pc = "idle"
    /\ \E o \in Bindings \ {last.by}, ip \in Tokens :
          /\ hasEntryFor(bindings[o].lines, ip)
          /\ ~hasEntryFor(parse(file), ip)
          /\ bindings[last.by].lines # bindings[o].lines
    /\ \E i \in 1..Len(bindings[last.by].lines) :
          bindings[last.by].lines[i].type = "comment"

====
